---- MODULE Spec2Model ----
(***************************************************************************)
(* A model of lib/connection.js of sails-mongo: the Connection constructor *)
(* (_buildConnection: option record, url query overrides, connection       *)
(* string, MongoClient.connect), createCollection / _ensureIndexes (an     *)
(* async.each fan-out of ensureIndex requests) and dropCollection.         *)
(*                                                                         *)
(* JavaScript values are tagged records.  A JavaScript string is a         *)
(* sequence of lexemes (TLA+ strings that are never split further); the    *)
(* lexemes used are chosen so that no string has two spellings.            *)
(*                                                                         *)
(* Inputs covered: config.url is absent, empty or one of Urls (no percent  *)
(* escapes); collection.indexes is an array of at most MaxIdx entries; at   *)
(* most MaxOps createCollection / dropCollection calls are made on one      *)
(* instance, concurrently.  The driver answers every request once, with an *)
(* error or without; the j-th ensureIndex request of a fan-out has an error *)
(* of its own, IndexError(j), so that the error reported can be traced.    *)
(*                                                                         *)
(* Three specifications share the constructor's actions: SpecBuild runs the *)
(* build over Configs (urls and credentials), SpecOptions over              *)
(* OptionConfigs (the option fields), Spec adds the collection operations   *)
(* over OpConfigs.                                                          *)
(***************************************************************************)
EXTENDS Naturals, Sequences, FiniteSets

VARIABLES
    config,        \* this.config (connection.js:21)
    pc,            \* where the constructor's build is: "new", "thrown", "connecting", "failed", "ready"
    thrown,        \* the error the constructor threw synchronously, or NoErr
    connectCalls,  \* the calls made to MongoClient.connect: <<[target, options]>>
    connectReplies,\* the driver's answers to them: <<[err, handle]>>
    db,            \* this.db (connection.js:29)
    buildCb,       \* the invocations of the constructor's cb: <<[err, conn]>>
    cbSaw,         \* the value of self.db at each of these invocations
    ops            \* the createCollection / dropCollection calls made on the instance

vars == <<config, pc, thrown, connectCalls, connectReplies, db, buildCb, cbSaw, ops>>

-----------------------------------------------------------------------------
(* Bounds of the model *)

\* the longest collection.indexes list handed to createCollection
MaxIdx == 2

\* the number of createCollection / dropCollection calls made on one instance
MaxOps == 1

-----------------------------------------------------------------------------
(* JavaScript values *)

Undef == [k |-> "undefined"]

Str(s) == [k |-> "string", s |-> s]

Bool(b) == [k |-> "boolean", b |-> b]

Arr(a) == [k |-> "array", a |-> a]

Obj(id) == [k |-> "object", id |-> id]

\* ToBoolean, as `if (x)`, `!x`, `a && b` apply it
Truthy(v) ==
    CASE v.k = "undefined" -> FALSE
      [] v.k = "string"    -> v.s # <<>>
      [] v.k = "boolean"   -> v.b
      [] v.k = "array"     -> TRUE
      [] v.k = "object"    -> TRUE

\* ToString, as `'...' + x` applies it to the values the config holds
ToStr(v) ==
    CASE v.k = "undefined" -> <<"undefined">>
      [] v.k = "string"    -> v.s
      [] v.k = "boolean"   -> IF v.b THEN <<"true">> ELSE <<"false">>

\* an error value: a kind and, for an index request, the request's position
Err(kind, n) == <<kind, n>>

NoErr == Err("null", 0)

\* new Error('The MongoDB Adapter requires a database config option ...')
ConfigError == Err("The MongoDB Adapter requires a database config option if authentication is used.", 0)

\* new Error('no db object')
NoDbError == Err("no db object", 0)

\* TypeError of `this.db.createCollection` / `this.db.dropCollection` when this.db is undefined
DbTypeError == Err("TypeError: Cannot read property of undefined", 0)

\* errors the driver may report
ConnectError == Err("E_connect", 0)

CreateError == Err("E_create", 0)

DropError == Err("E_drop", 0)

\* the error the j-th ensureIndex request of a fan-out may report
IndexError(j) == Err("E_index", j)

\* the handle MongoClient.connect yields
DbHandle == Obj("db")

-----------------------------------------------------------------------------
(* url.parse(this.config.url, true).query *)

RECURSIVE IndexOf(_, _, _)
\* the first position >= i of lexeme c in s, 0 if none (String.prototype.indexOf)
IndexOf(s, c, i) ==
    IF i > Len(s) THEN 0
    ELSE IF s[i] = c THEN i
    ELSE IndexOf(s, c, i + 1)

\* the url's search component without its '?': what follows the first '?',
\* up to the first '#' (the hash is cut off first); <<>> if there is no '?'
UrlSearch(u) ==
    LET h    == IndexOf(u, "#", 1)
        rest == IF h = 0 THEN u ELSE SubSeq(u, 1, h - 1)
        q    == IndexOf(rest, "?", 1)
    IN  IF q = 0 THEN <<>> ELSE SubSeq(rest, q + 1, Len(rest))

RECURSIVE Split(_, _)
\* String.prototype.split on a one-lexeme separator
Split(s, sep) ==
    LET i == IndexOf(s, sep, 1)
    IN  IF i = 0 THEN <<s>>
        ELSE <<SubSeq(s, 1, i - 1)>> \o Split(SubSeq(s, i + 1, Len(s)), sep)

\* querystring.unescape on the lexemes of the model: '+' is a space
QsDecode(s) == [i \in 1..Len(s) |-> IF s[i] = "+" THEN " " ELSE s[i]]

\* one 'key=value' segment: the key and value around the first '='
QsPair(seg) ==
    LET e == IndexOf(seg, "=", 1)
    IN  IF e = 0 THEN [key |-> QsDecode(seg), val |-> <<>>]
        ELSE [key |-> QsDecode(SubSeq(seg, 1, e - 1)),
              val |-> QsDecode(SubSeq(seg, e + 1, Len(seg)))]

\* obj[key] = value, a repeated key collecting its values in an array
QsAdd(obj, p) ==
    IF p.key \notin DOMAIN obj
    THEN [x \in DOMAIN obj \cup {p.key} |-> IF x = p.key THEN Str(p.val) ELSE obj[x]]
    ELSE [obj EXCEPT ![p.key] =
            IF @.k = "array" THEN Arr(Append(@.a, p.val)) ELSE Arr(<<@.s, p.val>>)]

RECURSIVE QsFold(_, _)
QsFold(obj, segs) ==
    IF segs = <<>> THEN obj
    ELSE QsFold(IF Head(segs) = <<>> THEN obj ELSE QsAdd(obj, QsPair(Head(segs))),
                Tail(segs))

\* querystring.parse: a map from keys to a string or an array of strings
EmptyObj == [x \in {} |-> Undef]

QsParse(search) == QsFold(EmptyObj, Split(search, "&"))

\* (url.parse(u, true) || {}).query || {}
QueryParams(u) == QsParse(UrlSearch(u))

\* obj.name
Get(obj, name) == IF <<name>> \in DOMAIN obj THEN obj[<<name>>] ELSE Undef

-----------------------------------------------------------------------------
(* _buildConnection *)

\* var connectionOptions = { ... } (connection.js:91-141); `a || b` is a when
\* a is truthy and b otherwise
ConfiguredOptions(c) ==
    [appname                      |-> c.appname,
     validateOptions              |-> c.validateOptions,
     checkServerIdentity          |-> c.checkServerIdentity,
     readPreference               |-> c.readPreference,
     pkFactory                    |-> c.pkFactory,
     promiseLibrary               |-> c.promiseLibrary,
     readConcern                  |-> c.readConcern,
     maxStalenessSeconds          |-> c.maxStalenessSeconds,
     loggerLevel                  |-> c.loggerLevel,
     logger                       |-> c.logger,
     promoteValues                |-> c.promoteValues,
     promoteBuffers               |-> c.promoteBuffers,
     promoteLongs                 |-> c.promoteLongs,
     domainsEnabled               |-> c.domainsEnabled,
     ssl                          |-> c.ssl,
     sslValidate                  |-> c.sslValidate,
     sslCA                        |-> c.sslCA,
     sslCert                      |-> c.sslCert,
     ciphers                      |-> c.ciphers,
     ecdhCurve                    |-> c.ecdhCurve,
     sslKey                       |-> c.sslKey,
     sslPass                      |-> c.sslPass,
     sslCRL                       |-> c.sslCRL,
     poolSize                     |-> c.poolSize,
     autoReconnect                |-> IF Truthy(c.autoReconnect) THEN c.autoReconnect ELSE c.auto_reconnect,
     reconnectInterval            |-> c.reconnectInterval,
     reconnectTries               |-> c.reconnectTries,
     j                            |-> c.j,
     w                            |-> c.w,
     wtimeout                     |-> c.wtimeout,
     native_parser                |-> c.nativeParser,
     forceServerObjectId          |-> c.forceServerObjectId,
     serializeFunctions           |-> c.serializeFunctions,
     ignoreUndefined              |-> c.ignoreUndefined,
     raw                          |-> c.raw,
     bufferMaxEntries             |-> c.bufferMaxEntries,
     noDelay                      |-> c.noDelay,
     keepAlive                    |-> c.keepAlive,
     keepAliveInitialDelay        |-> c.keepAliveInitialDelay,
     connectTimeoutMS             |-> c.connectTimeoutMS,
     socketTimeoutMS              |-> c.socketTimeoutMS,
     family                       |-> c.family,
     ha                           |-> c.ha,
     haInterval                   |-> c.haInterval,
     replicaSet                   |-> c.replicaSet,
     secondaryAcceptableLatencyMS |-> c.secondaryAcceptableLatencyMS,
     acceptableLatencyMS          |-> c.acceptableLatencyMS,
     connectWithNoPrimary         |-> c.connectWithNoPrimary,
     authSource                   |-> c.authSource]

\* UrlOverrides with a slip: the query's ssl only fills an ssl left unset
UrlOverrides_SslFillsOnly(o, q) ==
    IF DOMAIN q = {} THEN o
    ELSE [o EXCEPT
            !.ssl        = IF Truthy(Get(q, "ssl")) /\ o.ssl = Undef THEN Bool(TRUE) ELSE o.ssl,
            !.authSource = IF Truthy(Get(q, "authSource")) THEN Get(q, "authSource") ELSE o.authSource,
            !.replicaSet = IF Truthy(Get(q, "replicaSet")) THEN Get(q, "replicaSet") ELSE o.replicaSet]

\* UrlOverrides with a slip: a discrete authSource / replicaSet wins over the query's
UrlOverrides_DiscreteWins(o, q) ==
    IF DOMAIN q = {} THEN o
    ELSE [o EXCEPT
            !.ssl        = IF Truthy(Get(q, "ssl")) THEN Bool(TRUE) ELSE o.ssl,
            !.authSource = IF Truthy(o.authSource) THEN o.authSource ELSE Get(q, "authSource"),
            !.replicaSet = IF Truthy(o.replicaSet) THEN o.replicaSet ELSE Get(q, "replicaSet")]

\* the overrides read from the url's query (connection.js:153-168)
UrlOverrides(o, q) ==
    IF DOMAIN q = {} THEN o
    ELSE [o EXCEPT
            !.ssl        = IF Truthy(Get(q, "ssl")) THEN Bool(TRUE) ELSE o.ssl,
            !.authSource = IF Truthy(Get(q, "authSource")) THEN Get(q, "authSource") ELSE o.authSource,
            !.replicaSet = IF Truthy(Get(q, "replicaSet")) THEN Get(q, "replicaSet") ELSE o.replicaSet]

\* the options handed to MongoClient.connect
ConnectionOptions(c) ==
    IF Truthy(c.url) THEN UrlOverrides(ConfiguredOptions(c), QueryParams(c.url.s))
    ELSE ConfiguredOptions(c)

\* ThrowsConfigError with a slip: `this.config.database === undefined` for `!this.config.database`
ThrowsConfigError_UndefinedOnly(c) ==
    /\ ~Truthy(c.url)
    /\ Truthy(c.user) /\ Truthy(c.password)
    /\ c.database = Undef

\* `throw new Error(...)`: auth is used and no database is set
ThrowsConfigError(c) ==
    /\ ~Truthy(c.url)
    /\ Truthy(c.user) /\ Truthy(c.password)
    /\ ~Truthy(c.database)

\* BuiltString with a slip: `||` for `&&`, so one of user / password is enough
\* for the credentials to be written
BuiltString_EitherCredential(c) ==
    <<"mongodb://">>
    \o (IF Truthy(c.user) \/ Truthy(c.password)
        THEN ToStr(c.user) \o <<":">> \o ToStr(c.password) \o <<"@">>
        ELSE <<>>)
    \o ToStr(c.host) \o <<":">> \o ToStr(c.port) \o <<"/">>
    \o (IF Truthy(c.database) THEN ToStr(c.database) ELSE <<>>)

\* the connection string built when no url is configured (connection.js:172-189)
BuiltString(c) ==
    <<"mongodb://">>
    \o (IF Truthy(c.user) /\ Truthy(c.password)
        THEN ToStr(c.user) \o <<":">> \o ToStr(c.password) \o <<"@">>
        ELSE <<>>)
    \o ToStr(c.host) \o <<":">> \o ToStr(c.port) \o <<"/">>
    \o (IF Truthy(c.database) THEN ToStr(c.database) ELSE <<>>)

\* ConnectionString with a slip: the url is completed with the database field
ConnectionString_WithDatabase(c) ==
    IF Truthy(c.url)
    THEN Str(c.url.s \o (IF Truthy(c.database) THEN ToStr(c.database) ELSE <<>>))
    ELSE Str(BuiltString(c))

\* connectionString
ConnectionString(c) == IF Truthy(c.url) THEN c.url ELSE Str(BuiltString(c))

-----------------------------------------------------------------------------
(* The configurations *)

Base == <<"mongodb://h/db">>

P(k, v) == <<k, "=", v>>

\* the urls a configuration may carry
Urls ==
    { Base,
      Base \o <<"?">>,
      Base \o <<"?">> \o P("ssl", "true"),
      Base \o <<"?">> \o P("ssl", "false"),
      Base \o <<"?", "ssl", "=">>,
      Base \o <<"?", "ssl">>,
      Base \o <<"?">> \o P("authSource", "admin"),
      Base \o <<"?", "authSource", "=">>,
      Base \o <<"?">> \o P("replicaSet", "rs0"),
      Base \o <<"?", "replicaSet">>,
      Base \o <<"?">> \o P("ssl", "true") \o <<"&">> \o P("authSource", "admin")
           \o <<"&">> \o P("replicaSet", "rs0"),
      Base \o <<"?">> \o P("authSource", "admin") \o <<"&">> \o P("authSource", "other"),
      Base \o <<"?", "authSource", "=", "&", "authSource", "=">>,
      Base \o <<"?", "ssl", "=", "&">> \o P("ssl", "true"),
      Base \o <<"#", "f", "?">> \o P("ssl", "true") \o <<"&">> \o P("authSource", "admin"),
      Base \o <<"?">> \o P("ssl", "true") \o <<"#", "f">>,
      Base \o <<"?">> \o P("x", "1"),
      Base \o <<"?">> \o P("x", "1") \o <<"?">> \o P("ssl", "true"),
      Base \o <<"?", "&">> \o P("ssl", "true") \o <<"&">>,
      Base \o <<"?", "replicaSet", "=", "rs", "+", "0">> }

UrlValues == {Undef, Str(<<>>)} \cup {Str(u) : u \in Urls}

\* the fields of config that _buildConnection reads
ConfigFields ==
    {"acceptableLatencyMS", "appname", "authSource", "autoReconnect",
     "auto_reconnect", "bufferMaxEntries", "checkServerIdentity",
     "ciphers", "connectTimeoutMS", "connectWithNoPrimary", "database",
     "domainsEnabled", "ecdhCurve", "family", "forceServerObjectId", "ha",
     "haInterval", "host", "ignoreUndefined", "j", "keepAlive",
     "keepAliveInitialDelay", "logger", "loggerLevel",
     "maxStalenessSeconds", "nativeParser", "noDelay", "password",
     "pkFactory", "poolSize", "port", "promiseLibrary", "promoteBuffers",
     "promoteLongs", "promoteValues", "raw", "readConcern",
     "readPreference", "reconnectInterval", "reconnectTries",
     "replicaSet", "secondaryAcceptableLatencyMS", "serializeFunctions",
     "socketTimeoutMS", "ssl", "sslCA", "sslCRL", "sslCert", "sslKey",
     "sslPass", "sslValidate", "url", "user", "validateOptions", "w",
     "wtimeout"}

\* a config object: the fields given, every other field absent
Config(given) == [f \in ConfigFields |-> IF f \in DOMAIN given THEN given[f] ELSE Undef]

\* every configuration the build is checked on
Configs ==
    {Config(given) : given \in
        [url        : UrlValues,
         user       : {Undef, Str(<<>>), Str(<<"u">>)},
         password   : {Undef, Str(<<>>), Str(<<"p">>)},
         database   : {Undef, Str(<<>>), Str(<<"db">>)},
         host       : {Undef, Str(<<"h">>)},
         port       : {Undef, Str(<<"27017">>)},
         ssl        : {Undef, Bool(FALSE), Bool(TRUE)},
         authSource : {Undef, Str(<<"admin">>), Str(<<"other">>)},
         replicaSet : {Undef, Str(<<"rs1">>)}]}

\* the configurations the option record is checked on: no url, and option
\* fields absent, false, true or a value
OptionConfigs ==
    {Config(given) : given \in
        [host           : {Str(<<"h">>)},
         port           : {Str(<<"27017">>)},
         ssl            : {Undef, Bool(FALSE), Bool(TRUE)},
         autoReconnect  : {Undef, Bool(FALSE), Bool(TRUE)},
         auto_reconnect : {Undef, Bool(FALSE), Bool(TRUE)},
         nativeParser   : {Undef, Bool(FALSE), Bool(TRUE)},
         promoteValues  : {Undef, Bool(FALSE)},
         poolSize       : {Undef, Str(<<"5">>)},
         w              : {Undef, Str(<<"majority">>)}]}

\* the configurations the collection operations are checked on
OpConfigs ==
    {c \in Configs :
        /\ c.url \in {Undef, Str(Base \o <<"?">> \o P("ssl", "true"))}
        /\ c.user = Str(<<"u">>) /\ c.password = Str(<<"p">>)
        /\ c.database \in {Undef, Str(<<"db">>)}
        /\ c.host = Str(<<"h">>) /\ c.port = Str(<<"27017">>)
        /\ c.ssl = Undef /\ c.authSource = Undef /\ c.replicaSet = Undef}

-----------------------------------------------------------------------------
(* The constructor *)

InitWith(cs) ==
    /\ config \in cs
    /\ pc = "new"
    /\ thrown = NoErr
    /\ connectCalls = <<>>
    /\ connectReplies = <<>>
    /\ db = Undef
    /\ buildCb = <<>>
    /\ cbSaw = <<>>
    /\ ops = <<>>

Init == InitWith(OpConfigs)

InitBuild == InitWith(Configs)

InitOptions == InitWith(OptionConfigs)

\* new Connection(config, cb): _buildConnection runs to its throw or to
\* MongoClient.connect
Construct ==
    /\ pc = "new"
    /\ IF ThrowsConfigError(config)
       THEN /\ pc' = "thrown"
            /\ thrown' = ConfigError
            /\ UNCHANGED connectCalls
       ELSE /\ pc' = "connecting"
            /\ connectCalls' = Append(connectCalls,
                   [target |-> ConnectionString(config), options |-> ConnectionOptions(config)])
            /\ UNCHANGED thrown
    /\ UNCHANGED <<config, connectReplies, db, buildCb, cbSaw, ops>>

\* BuildCallback with a slip: the `if(!db)` check is missing
BuildCallback_NoHandleCheck(err, handle) ==
    /\ UNCHANGED connectCalls
    /\ IF err # NoErr
       THEN /\ buildCb' = Append(buildCb, [err |-> err, conn |-> FALSE])
            /\ cbSaw' = Append(cbSaw, db)
            /\ pc' = "failed"
            /\ UNCHANGED db
       ELSE /\ db' = handle
            /\ buildCb' = Append(buildCb, [err |-> NoErr, conn |-> TRUE])
            /\ cbSaw' = Append(cbSaw, handle)
            /\ pc' = "ready"

\* BuildCallback with a change: a failed connect is tried again
BuildCallback_Retries(err, handle) ==
    IF err # NoErr \/ ~Truthy(handle)
    THEN /\ connectCalls' = Append(connectCalls, connectCalls[Len(connectCalls)])
         /\ pc' = "connecting"
         /\ UNCHANGED <<db, buildCb, cbSaw>>
    ELSE /\ db' = handle
         /\ buildCb' = Append(buildCb, [err |-> NoErr, conn |-> TRUE])
         /\ cbSaw' = Append(cbSaw, handle)
         /\ pc' = "ready"
         /\ UNCHANGED connectCalls

\* BuildCallback with a slip: cb(null, self) comes before self.db = db
BuildCallback_CallbackFirst(err, handle) ==
    /\ UNCHANGED connectCalls
    /\ IF err # NoErr
       THEN /\ buildCb' = Append(buildCb, [err |-> err, conn |-> FALSE])
            /\ cbSaw' = Append(cbSaw, db)
            /\ pc' = "failed"
            /\ UNCHANGED db
       ELSE IF ~Truthy(handle)
       THEN /\ buildCb' = Append(buildCb, [err |-> NoDbError, conn |-> FALSE])
            /\ cbSaw' = Append(cbSaw, db)
            /\ pc' = "failed"
            /\ UNCHANGED db
       ELSE /\ buildCb' = Append(buildCb, [err |-> NoErr, conn |-> TRUE])
            /\ cbSaw' = Append(cbSaw, db)
            /\ db' = handle
            /\ pc' = "ready"

\* the callback handed to _buildConnection (connection.js:24-33), on the
\* driver's reply (err, handle); cb is called within it, after self.db = db
\* on the success path, and sees self.db as it then is
BuildCallback(err, handle) ==
    /\ UNCHANGED connectCalls
    /\ IF err # NoErr
       THEN /\ buildCb' = Append(buildCb, [err |-> err, conn |-> FALSE])
            /\ cbSaw' = Append(cbSaw, db)
            /\ pc' = "failed"
            /\ UNCHANGED db
       ELSE IF ~Truthy(handle)
       THEN /\ buildCb' = Append(buildCb, [err |-> NoDbError, conn |-> FALSE])
            /\ cbSaw' = Append(cbSaw, db)
            /\ pc' = "failed"
            /\ UNCHANGED db
       ELSE /\ db' = handle
            /\ buildCb' = Append(buildCb, [err |-> NoErr, conn |-> TRUE])
            /\ cbSaw' = Append(cbSaw, handle)
            /\ pc' = "ready"

\* MongoClient.connect answers: an error, a handle, or success without a handle
ConnectReply ==
    /\ pc = "connecting"
    /\ \E r \in {<<ConnectError, Undef>>, <<NoErr, DbHandle>>, <<NoErr, Undef>>} :
          /\ connectReplies' = Append(connectReplies, [err |-> r[1], handle |-> r[2]])
          /\ BuildCallback(r[1], r[2])
    /\ UNCHANGED <<config, thrown, ops>>

NextBuild == Construct \/ ConnectReply

SpecBuild == InitBuild /\ [][NextBuild]_vars

SpecOptions == InitOptions /\ [][NextBuild]_vars

-----------------------------------------------------------------------------
(* createCollection, _ensureIndexes, dropCollection *)

Names == {"orders"}

\* the entries of collection.indexes: { index: ..., options: ... }
IndexSpecs == {[index |-> "sku", options |-> "unique"], [index |-> "name", options |-> "sparse"]}

RECURSIVE SeqsUpTo(_, _)
\* the sequences over S of length at most n
SeqsUpTo(S, n) ==
    IF n = 0 THEN {<<>>}
    ELSE LET shorter == SeqsUpTo(S, n - 1)
         IN  shorter \cup {Append(q, x) : q \in shorter, x \in S}

IndexLists == SeqsUpTo(IndexSpecs, MaxIdx)

\* a call on the instance that has reached no driver yet
NewOp(kind, name, indexes) ==
    [kind      |-> kind,
     name      |-> name,
     indexes   |-> indexes,
     thrown    |-> NoErr,   \* the error the call threw synchronously
     calls     |-> <<>>,    \* the driver calls it made, in order
     pending   |-> {},      \* the positions in calls of the requests not yet answered
     replies   |-> <<>>,    \* the driver's answers, in order: [call, err]
     completed |-> 0,       \* async.each: the iterations that ended without error
     called    |-> FALSE,   \* async.each: its final callback has been used
     cb        |-> <<>>]    \* the invocations of the call's cb: the err arguments

DriverCall(call, a1, a2) == [call |-> call, a1 |-> a1, a2 |-> a2]

\* StartCreate with a change: the request goes to the driver whether or not
\* this.db is set
StartCreate_NoDbCheck(name, indexes) ==
    [NewOp("createCollection", name, indexes)
        EXCEPT !.calls = <<DriverCall("createCollection", name, "")>>,
               !.pending = {1}]

\* this.db.createCollection(name, function(err, result) {...}); a TypeError
\* when this.db is not set
StartCreate(name, indexes) ==
    LET op == NewOp("createCollection", name, indexes)
    IN  IF db = Undef
        THEN [op EXCEPT !.thrown = DbTypeError]
        ELSE [op EXCEPT !.calls = <<DriverCall("createCollection", name, "")>>,
                        !.pending = {1}]

\* StartDrop with a change: the collection's indexes are dropped with it
StartDrop_Cascades(name) ==
    LET op == NewOp("dropCollection", name, <<>>)
    IN  IF db = Undef
        THEN [op EXCEPT !.thrown = DbTypeError]
        ELSE [op EXCEPT !.calls = <<DriverCall("dropIndexes", name, ""),
                                    DriverCall("dropCollection", name, "")>>,
                        !.pending = {2}]

\* this.db.dropCollection(name, cb)
StartDrop(name) ==
    LET op == NewOp("dropCollection", name, <<>>)
    IN  IF db = Undef
        THEN [op EXCEPT !.thrown = DbTypeError]
        ELSE [op EXCEPT !.calls = <<DriverCall("dropCollection", name, "")>>,
                        !.pending = {1}]

\* the driver's answer to the request at position j is recorded
Answered(op, j, err) ==
    [op EXCEPT !.pending = @ \ {j},
               !.replies = Append(@, [call |-> j, err |-> err])]

\* EnsureIndexes with a change: the requests go out one after the other
\* (async.eachSeries), so only the first entry's is issued at once
EnsureIndexes_InSeries(op) ==
    LET n == Len(op.indexes)
    IN  IF n = 0
        THEN [op EXCEPT !.called = TRUE, !.cb = Append(@, NoErr)]
        ELSE [op EXCEPT
                !.calls = Append(@, DriverCall("ensureIndex", op.indexes[1].index,
                                               op.indexes[1].options)),
                !.pending = @ \cup {2}]

\* EnsureIndexes with a slip: an empty list is not treated apart, so cb waits
\* for a completion that never comes
EnsureIndexes_NoEmptyCase(op) ==
    LET n == Len(op.indexes)
    IN  [op EXCEPT
            !.calls = @ \o [j \in 1..n |->
                         DriverCall("ensureIndex", op.indexes[j].index, op.indexes[j].options)],
            !.pending = @ \cup {j + 1 : j \in 1..n}]

\* async.each(indexes, createIndex, cb): every entry's ensureIndex is issued
\* at once; an empty list calls cb at once
EnsureIndexes(op) ==
    LET n == Len(op.indexes)
    IN  IF n = 0
        THEN [op EXCEPT !.called = TRUE, !.cb = Append(@, NoErr)]
        ELSE [op EXCEPT
                !.calls = @ \o [j \in 1..n |->
                             DriverCall("ensureIndex", op.indexes[j].index, op.indexes[j].options)],
                !.pending = @ \cup {j + 1 : j \in 1..n}]

\* CreateCallback with a slip: the driver's error is dropped, not handed to cb
CreateCallback_Swallows(op, err) ==
    IF err # NoErr THEN op ELSE EnsureIndexes(op)

\* CreateCallback with a slip: `if(err) cb(err);` without its return, so the
\* indexes are provisioned after a failed creation too
CreateCallback_NoReturn(op, err) ==
    IF err # NoErr
    THEN EnsureIndexes([op EXCEPT !.cb = Append(@, err)])
    ELSE EnsureIndexes(op)

\* the callback of this.db.createCollection (connection.js:55-60)
CreateCallback(op, err) ==
    IF err # NoErr
    THEN [op EXCEPT !.cb = Append(@, err)]
    ELSE EnsureIndexes(op)

\* EachCallback with a slip: the count is one short, so cb is called a completion early
EachCallback_OneShort(op, err) ==
    IF err # NoErr
    THEN IF op.called THEN op
         ELSE [op EXCEPT !.called = TRUE, !.cb = Append(@, err)]
    ELSE IF op.completed + 1 >= Len(op.indexes) - 1 /\ ~op.called
         THEN [op EXCEPT !.completed = @ + 1, !.called = TRUE, !.cb = Append(@, NoErr)]
         ELSE [op EXCEPT !.completed = @ + 1]

\* EachCallback with a slip: every failing iteration calls cb
EachCallback_EveryError(op, err) ==
    IF err # NoErr
    THEN [op EXCEPT !.called = TRUE, !.cb = Append(@, err)]
    ELSE IF op.completed + 1 = Len(op.indexes) /\ ~op.called
         THEN [op EXCEPT !.completed = @ + 1, !.called = TRUE, !.cb = Append(@, NoErr)]
         ELSE [op EXCEPT !.completed = @ + 1]

\* EachCallback with a change: the first failure drops the collection again
EachCallback_RollsBack(op, err) ==
    IF err # NoErr
    THEN IF op.called THEN op
         ELSE [op EXCEPT !.called = TRUE, !.cb = Append(@, err),
                         !.calls = Append(@, DriverCall("dropCollection", op.name, ""))]
    ELSE IF op.completed + 1 = Len(op.indexes) /\ ~op.called
         THEN [op EXCEPT !.completed = @ + 1, !.called = TRUE, !.cb = Append(@, NoErr)]
         ELSE [op EXCEPT !.completed = @ + 1]

\* the callback async.each hands to each iteration
EachCallback(op, err) ==
    IF err # NoErr
    THEN IF op.called THEN op
         ELSE [op EXCEPT !.called = TRUE, !.cb = Append(@, err)]
    ELSE IF op.completed + 1 = Len(op.indexes) /\ ~op.called
         THEN [op EXCEPT !.completed = @ + 1, !.called = TRUE, !.cb = Append(@, NoErr)]
         ELSE [op EXCEPT !.completed = @ + 1]

\* the caller holds the instance once the constructor has returned
HoldsInstance == pc \in {"connecting", "failed", "ready"}

CallCreateCollection ==
    /\ HoldsInstance
    /\ Len(ops) < MaxOps
    /\ \E name \in Names, indexes \in IndexLists :
          ops' = Append(ops, StartCreate(name, indexes))
    /\ UNCHANGED <<config, pc, thrown, connectCalls, connectReplies, db, buildCb, cbSaw>>

CallDropCollection ==
    /\ HoldsInstance
    /\ Len(ops) < MaxOps
    /\ \E name \in Names : ops' = Append(ops, StartDrop(name))
    /\ UNCHANGED <<config, pc, thrown, connectCalls, connectReplies, db, buildCb, cbSaw>>

\* the driver answers a createCollection request
CreateCollectionReply ==
    /\ \E i \in 1..Len(ops), err \in {NoErr, CreateError} :
          /\ ops[i].kind = "createCollection"
          /\ 1 \in ops[i].pending
          /\ ops' = [ops EXCEPT ![i] = CreateCallback(Answered(@, 1, err), err)]
    /\ UNCHANGED <<config, pc, thrown, connectCalls, connectReplies, db, buildCb, cbSaw>>

\* the driver answers one ensureIndex request
EnsureIndexReply ==
    /\ \E i \in 1..Len(ops) :
          \E j \in ops[i].pending \ {1} :
             \E err \in {NoErr, IndexError(j - 1)} :
                ops' = [ops EXCEPT ![i] = EachCallback(Answered(@, j, err), err)]
    /\ UNCHANGED <<config, pc, thrown, connectCalls, connectReplies, db, buildCb, cbSaw>>

\* the driver answers a dropCollection request: cb itself is the driver's callback
DropCollectionReply ==
    /\ \E i \in 1..Len(ops), err \in {NoErr, DropError} :
          /\ ops[i].kind = "dropCollection"
          /\ 1 \in ops[i].pending
          /\ ops' = [ops EXCEPT ![i] = [Answered(@, 1, err) EXCEPT !.cb = Append(@, err)]]
    /\ UNCHANGED <<config, pc, thrown, connectCalls, connectReplies, db, buildCb, cbSaw>>

Next ==
    \/ Construct
    \/ ConnectReply
    \/ CallCreateCollection
    \/ CallDropCollection
    \/ CreateCollectionReply
    \/ EnsureIndexReply
    \/ DropCollectionReply

Spec == Init /\ [][Next]_vars

-----------------------------------------------------------------------------
(* The query component of a url, read off the url's positions (RFC 3986:   *)
(* what lies between the first '?' and the first '#'), for the statements  *)
(* about the url's query parameters                                        *)

HashAt(u) == {i \in 1..Len(u) : u[i] = "#"}

\* the position that ends the query: the first '#', or the end of the url
QueryEnd(u) == IF HashAt(u) = {} THEN Len(u) + 1
               ELSE CHOOSE i \in HashAt(u) : \A j \in HashAt(u) : i <= j

QMarks(u) == {i \in 1..(QueryEnd(u) - 1) : u[i] = "?"}

\* position i starts a parameter of the query
StartsParam(u, i) ==
    /\ i \in 2..(QueryEnd(u) - 1)
    /\ QMarks(u) # {}
    /\ \/ i - 1 \in QMarks(u) /\ \A j \in QMarks(u) : i - 1 <= j
       \/ u[i - 1] = "&" /\ \E j \in QMarks(u) : j < i - 1

\* the position that ends the parameter starting at i
ParamEnd(u, i) ==
    CHOOSE e \in i..QueryEnd(u) :
        /\ e = QueryEnd(u) \/ u[e] = "&"
        /\ \A j \in i..(e - 1) : u[j] # "&"

\* the positions where a parameter named key starts
ParamsNamed(u, key) ==
    {i \in 1..Len(u) :
        /\ StartsParam(u, i)
        /\ u[i] = key
        /\ i + 1 = ParamEnd(u, i) \/ u[i + 1] = "="}

\* the value of the parameter starting at i, '+' read as a space
ParamValue(u, i) ==
    LET raw == SubSeq(u, i + 2, ParamEnd(u, i) - 1)
    IN  [j \in 1..Len(raw) |-> IF raw[j] = "+" THEN " " ELSE raw[j]]

RECURSIVE ValuesFrom(_, _, _)
\* the values of the parameters starting at the positions ps, from position i on
ValuesFrom(u, ps, i) ==
    IF i > Len(u) THEN <<>>
    ELSE (IF i \in ps THEN <<ParamValue(u, i)>> ELSE <<>>) \o ValuesFrom(u, ps, i + 1)

\* the values of the parameters named key, in the url's order
ValuesOf(u, key) == ValuesFrom(u, ParamsNamed(u, key), 1)

\* the query's value for key: the value, or the array of the values of a repeated key
QueryValue(u, key) ==
    LET vs == ValuesOf(u, key)
    IN  IF Len(vs) = 1 THEN Str(vs[1]) ELSE Arr(vs)

UrlSet == Truthy(config.url)

Connected == connectCalls # <<>>

-----------------------------------------------------------------------------
(* Claims about the build *)

\* C1 as stated: whenever user and password are set and database is unset, the
\* build fails with the configuration error and connect is never called
C1_AsStated ==
    (pc # "new" /\ Truthy(config.user) /\ Truthy(config.password) /\ ~Truthy(config.database))
        => (pc = "thrown" /\ thrown = ConfigError /\ connectCalls = <<>>)

\* C1, amended: when no url is configured, user and password are both set
\* (non-empty) and database is unset or empty, the constructor throws the
\* configuration error, connect is never called and the callback is not invoked
C1_ConfigErrorWithoutUrl ==
    (pc # "new" /\ ~Truthy(config.url)
       /\ Truthy(config.user) /\ Truthy(config.password) /\ ~Truthy(config.database))
        => (pc = "thrown" /\ thrown = ConfigError /\ connectCalls = <<>> /\ buildCb = <<>>)

C1_Witness ==
    /\ pc = "thrown"
    /\ config.url = Undef /\ config.database = Str(<<>>)
    /\ Truthy(config.user) /\ Truthy(config.password)

\* C5: a url whose query has the parameter ssl=true makes the options handed
\* to connect carry ssl = true, whatever the discrete ssl field is
C5_UrlSslForcesTls ==
    (UrlSet /\ pc # "new" /\ \E i \in ParamsNamed(config.url.s, "ssl") :
                                ParamValue(config.url.s, i) = <<"true">>)
        => (Len(connectCalls) = 1 /\ connectCalls[1].options.ssl = Bool(TRUE))

C5_Witness ==
    /\ Connected /\ UrlSet
    /\ \E i \in ParamsNamed(config.url.s, "ssl") : ParamValue(config.url.s, i) = <<"true">>
    /\ config.ssl = Bool(FALSE)
    /\ connectCalls[1].options.ssl = Bool(TRUE)

\* C6 as stated: a parameter authSource / replicaSet that appears in the
\* query gives the resolved option its value; one that does not appear
\* leaves the discrete field's value
C6_AsStated ==
    (UrlSet /\ Connected) =>
        \A key \in {"authSource", "replicaSet"} :
            connectCalls[1].options[key] =
                IF ParamsNamed(config.url.s, key) # {}
                THEN QueryValue(config.url.s, key)
                ELSE config[key]

\* what the amended C6 expects of the option named key
C6_Expected(key) ==
    LET vs == ValuesOf(config.url.s, key)
    IN  IF Len(vs) = 0 \/ (Len(vs) = 1 /\ vs[1] = <<>>)
        THEN config[key]
        ELSE QueryValue(config.url.s, key)

\* C6, amended: a parameter authSource / replicaSet that appears once with a
\* non-empty value, or more than once, gives the resolved option its value
\* (the array of its values when repeated) even when the discrete field
\* differs; one that does not appear, or appears once with an empty value,
\* leaves the discrete field's value
C6_UrlParamOverrides ==
    (UrlSet /\ Connected) =>
        \A key \in {"authSource", "replicaSet"} :
            connectCalls[1].options[key] = C6_Expected(key)

C6_Witness ==
    /\ Connected /\ UrlSet
    /\ ValuesOf(config.url.s, "authSource") = <<(<<"admin">>)>>
    /\ config.authSource = Str(<<"other">>)
    /\ connectCalls[1].options.authSource = Str(<<"admin">>)
    /\ ValuesOf(config.url.s, "replicaSet") = <<>>
    /\ connectCalls[1].options.replicaSet = Str(<<"rs1">>)

\* C7: with a url configured, connect is called with exactly that url as its
\* target, whatever host, port, user, password and database are
C7_UrlIsTarget ==
    (UrlSet /\ pc # "new")
        => (Len(connectCalls) = 1 /\ connectCalls[1].target = config.url)

C7_Witness ==
    /\ Connected /\ UrlSet
    /\ Truthy(config.user) /\ Truthy(config.password) /\ Truthy(config.database)
    /\ Truthy(config.host) /\ Truthy(config.port)
    /\ connectCalls[1].target = config.url

\* C9: a connect that answers without error and without a handle gives the
\* build callback the error 'no db object' and no connection, and this.db
\* stays unset; a driver error is handed on as it is, and is another error
C9_DegenerateConnect ==
    \A i \in 1..Len(connectReplies) :
        LET r == connectReplies[i]
        IN  /\ (r.err = NoErr /\ ~Truthy(r.handle))
                 => (buildCb = <<[err |-> NoDbError, conn |-> FALSE]>> /\ db = Undef)
            /\ r.err # NoErr
                 => (buildCb = <<[err |-> r.err, conn |-> FALSE]>> /\ db = Undef
                     /\ r.err # NoDbError)

C9_Witness ==
    /\ connectReplies = <<[err |-> NoErr, handle |-> Undef]>>
    /\ buildCb = <<[err |-> NoDbError, conn |-> FALSE]>>
    /\ ops # <<>>

-----------------------------------------------------------------------------
(* Claims about createCollection, _ensureIndexes and dropCollection *)

IsCreate(op) == op.kind = "createCollection"

\* the positions in op.replies of the answers that carry an error
ErrorReplies(op) == {k \in 1..Len(op.replies) : op.replies[k].err # NoErr}

\* those of them that answer an ensureIndex request
IndexFailures(op) == {k \in ErrorReplies(op) : op.calls[op.replies[k].call].call = "ensureIndex"}

First(S) == CHOOSE k \in S : \A m \in S : k <= m

\* the request at position j of op.calls was answered without error
Succeeded(op, j) == \E k \in 1..Len(op.replies) : op.replies[k] = [call |-> j, err |-> NoErr]

\* C2: createCollection's callback reports success only when the driver's
\* createCollection has succeeded and an ensureIndex request for every entry
\* of indexes has been issued and has succeeded, none pending or failed
C2_SuccessAfterAllIndexes ==
    \A i \in 1..Len(ops) :
        LET op == ops[i]
        IN  (IsCreate(op) /\ \E k \in 1..Len(op.cb) : op.cb[k] = NoErr)
              => /\ Succeeded(op, 1)
                 /\ Len(op.calls) = 1 + Len(op.indexes)
                 /\ \A j \in 1..Len(op.indexes) :
                       /\ op.calls[j + 1] =
                            DriverCall("ensureIndex", op.indexes[j].index, op.indexes[j].options)
                       /\ Succeeded(op, j + 1)
                 /\ op.pending = {}
                 /\ ErrorReplies(op) = {}

C2_Witness ==
    \E i \in 1..Len(ops) :
        /\ IsCreate(ops[i])
        /\ Len(ops[i].indexes) = 2
        /\ ops[i].cb = <<NoErr>>

\* C3: once an ensureIndex request of a fan-out has failed, the callback has
\* been invoked exactly once, with the error of the request that failed
\* first; later answers of its siblings change nothing of that
C3_FirstErrorOnce ==
    \A i \in 1..Len(ops) :
        LET op == ops[i]
        IN  IndexFailures(op) # {}
              => op.cb = <<op.replies[First(IndexFailures(op))].err>>

C3_Witness ==
    \E i \in 1..Len(ops) :
        /\ Cardinality(IndexFailures(ops[i])) = 2
        /\ ops[i].pending = {}
        /\ Len(ops[i].cb) = 1

\* C4: when the collection was created and an index request failed,
\* createCollection reports that error, and the only driver calls it has
\* made are the createCollection and the ensureIndex requests: no
\* dropCollection, no other compensating call
C4_NoRollback ==
    \A i \in 1..Len(ops) :
        LET op == ops[i]
        IN  (IsCreate(op) /\ Succeeded(op, 1) /\ IndexFailures(op) # {})
              => /\ op.cb = <<op.replies[First(IndexFailures(op))].err>>
                 /\ Len(op.calls) = 1 + Len(op.indexes)
                 /\ op.calls[1].call = "createCollection"
                 /\ \A j \in 2..Len(op.calls) : op.calls[j].call = "ensureIndex"

C4_Witness ==
    \E i \in 1..Len(ops) :
        /\ IsCreate(ops[i])
        /\ Succeeded(ops[i], 1) /\ Succeeded(ops[i], 2)
        /\ ops[i].replies[Len(ops[i].replies)] = [call |-> 3, err |-> IndexError(2)]
        /\ ops[i].cb = <<IndexError(2)>>

\* C8: with an empty index list, the callback is invoked with success as
\* soon as the collection is created, and no ensureIndex request is issued
C8_EmptyIndexList ==
    \A i \in 1..Len(ops) :
        LET op == ops[i]
        IN  (IsCreate(op) /\ op.indexes = <<>> /\ Succeeded(op, 1))
              => /\ op.cb = <<NoErr>>
                 /\ op.calls = <<DriverCall("createCollection", op.name, "")>>

C8_Witness ==
    \E i \in 1..Len(ops) :
        /\ IsCreate(ops[i]) /\ ops[i].indexes = <<>>
        /\ Succeeded(ops[i], 1)
        /\ ops[i].cb = <<NoErr>>

\* the build has ended
BuildOver == pc \in {"thrown", "failed", "ready"}

\* C10 as stated: every error, the configuration error among them, reaches
\* the operation's callback, and no operation ends with its callback not invoked
C10_AsStated ==
    /\ BuildOver => Len(buildCb) = 1
    /\ thrown # NoErr => (Len(buildCb) = 1 /\ buildCb[1].err = thrown)
    /\ \A i \in 1..Len(ops) :
          /\ ops[i].pending = {} => Len(ops[i].cb) = 1
          /\ ErrorReplies(ops[i]) # {} => ops[i].cb # <<>>

\* the error argument the build callback is due, given the driver's answer
BuildErrorOf(r) ==
    IF r.err # NoErr THEN r.err
    ELSE IF ~Truthy(r.handle) THEN NoDbError
    ELSE NoErr

\* C10, amended: the configuration error is thrown by the constructor and
\* its callback is never invoked, and so is the TypeError of a call made
\* while this.db is unset; every other build and every other operation
\* invokes its callback exactly once, by the time the driver has answered,
\* with the connect error, the 'no db object' error, the createCollection
\* error, the dropCollection error or the first ensureIndex error as its
\* error argument (later ensureIndex errors are dropped)
C10_ErrorsReachCallback ==
    /\ pc = "thrown" <=> thrown # NoErr
    /\ pc = "thrown" => (thrown = ConfigError /\ buildCb = <<>>)
    /\ pc \in {"new", "connecting"} => buildCb = <<>>
    /\ pc \in {"failed", "ready"}
         => /\ Len(connectReplies) = 1 /\ Len(buildCb) = 1
            /\ buildCb[1].err = BuildErrorOf(connectReplies[1])
    /\ \A i \in 1..Len(ops) :
          LET op == ops[i]
          IN  /\ op.thrown # NoErr => (op.cb = <<>> /\ op.calls = <<>>)
              /\ op.thrown = NoErr
                    => /\ Len(op.cb) <= 1
                       /\ op.pending = {} => Len(op.cb) = 1
                       /\ ErrorReplies(op) # {}
                             => op.cb = <<op.replies[First(ErrorReplies(op))].err>>
                       /\ (op.cb # <<>> /\ ErrorReplies(op) = {}) => op.cb = <<NoErr>>

C10_Witness ==
    /\ buildCb = <<[err |-> NoErr, conn |-> TRUE]>>
    /\ \E i \in 1..Len(ops) :
          /\ ops[i].replies = <<[call |-> 1, err |-> CreateError]>>
          /\ ops[i].cb = <<CreateError>>

-----------------------------------------------------------------------------
(* Claims about the order of the build and of the operations *)

\* C11: on a successful connect the handle is stored before the build
\* callback is invoked: the callback is invoked exactly once, with the
\* Connection, and the Connection it sees holds the driver's handle
C11_HandleStoredBeforeCallback ==
    /\ pc = "ready"
         => /\ buildCb = <<[err |-> NoErr, conn |-> TRUE]>>
            /\ cbSaw = <<connectReplies[1].handle>>
            /\ db = connectReplies[1].handle
            /\ Truthy(db)
    /\ \A k \in 1..Len(buildCb) :
          buildCb[k].conn => (buildCb[k].err = NoErr /\ Truthy(cbSaw[k]))

C11_Witness ==
    /\ pc = "ready"
    /\ cbSaw = <<DbHandle>>
    /\ \E i \in 1..Len(ops) : ops[i].cb # <<>>

\* C12: no createCollection or dropCollection request reaches the driver
\* before the connect has succeeded and its handle is stored in this.db: a
\* call made earlier (or after a failed build) throws and requests nothing
C12_ConnectBeforeOperations ==
    \A i \in 1..Len(ops) :
        /\ ops[i].calls # <<>>
             => /\ pc = "ready" /\ db = DbHandle
                /\ connectReplies = <<[err |-> NoErr, handle |-> DbHandle]>>
                /\ ops[i].thrown = NoErr
        /\ ops[i].thrown # NoErr => (ops[i].calls = <<>> /\ ops[i].pending = {})

C12_Witness ==
    /\ pc = "connecting"
    /\ ops # <<>>
    /\ ops[1].thrown = DbTypeError /\ ops[1].calls = <<>>

\* the positions in op.calls of the ensureIndex requests
IndexCalls(op) == {j \in 1..Len(op.calls) : op.calls[j].call = "ensureIndex"}

\* C13: an ensureIndex request is issued only once the driver's
\* createCollection has succeeded; when it fails, createCollection reports
\* its error and issues no ensureIndex request
C13_IndexesAfterCreate ==
    \A i \in 1..Len(ops) :
        LET op == ops[i]
        IN  /\ IndexCalls(op) # {} => (IsCreate(op) /\ Succeeded(op, 1))
            /\ (IsCreate(op) /\ op.replies # <<>> /\ op.replies[1].err # NoErr)
                  => /\ op.cb = <<op.replies[1].err>>
                     /\ IndexCalls(op) = {}
                     /\ Len(op.calls) = 1 /\ op.pending = {}

C13_Witness ==
    \E i \in 1..Len(ops) :
        /\ IsCreate(ops[i]) /\ Len(ops[i].indexes) = 2
        /\ ops[i].replies = <<[call |-> 1, err |-> CreateError]>>
        /\ ops[i].cb = <<CreateError>>
        /\ IndexCalls(ops[i]) = {}

\* the configuration passes _buildConnection's check
ValidConfig ==
    \/ Truthy(config.url)
    \/ ~(Truthy(config.user) /\ Truthy(config.password))
    \/ Truthy(config.database)

\* C14: a build calls the driver's connect at most once, exactly once when
\* the configuration is valid, and not again after a connect error or an
\* answer without a handle
C14_OneConnectNoRetry ==
    /\ Len(connectCalls) <= 1
    /\ Len(connectReplies) <= Len(connectCalls)
    /\ pc \in {"new", "thrown"} => connectCalls = <<>>
    /\ (pc # "new" /\ ValidConfig) => Len(connectCalls) = 1
    /\ pc = "failed" => (Len(connectCalls) = 1 /\ Len(connectReplies) = 1)

C14_Witness ==
    /\ pc = "failed"
    /\ connectReplies = <<[err |-> NoErr, handle |-> Undef]>>
    /\ Len(connectCalls) = 1

-----------------------------------------------------------------------------
(* Claims about the connection string and the options *)

\* a config field as it reads inside a string: its text, 'undefined' when unset
Text(v) == IF v = Undef THEN <<"undefined">> ELSE v.s

BothCredentials == Truthy(config.user) /\ Truthy(config.password)

\* C15: without a url, connect's target is 'mongodb://', then
\* 'user:password@' exactly when user and password are both set, then
\* 'host:port/', then the database exactly when it is set; with one of
\* user / password unset no configuration error is raised, whatever database is
C15_BuiltTarget ==
    (~UrlSet /\ pc # "new" /\ ~(BothCredentials /\ ~Truthy(config.database)))
        => /\ thrown = NoErr
           /\ Len(connectCalls) = 1
           /\ connectCalls[1].target =
                Str(<<"mongodb://">>
                    \o (IF BothCredentials
                        THEN config.user.s \o <<":">> \o config.password.s \o <<"@">>
                        ELSE <<>>)
                    \o Text(config.host) \o <<":">> \o Text(config.port) \o <<"/">>
                    \o (IF Truthy(config.database) THEN config.database.s ELSE <<>>))

C15_Witness ==
    /\ Connected /\ config.url = Undef
    /\ config.user = Str(<<"u">>) /\ config.password = Undef /\ config.database = Undef
    /\ connectCalls[1].target = Str(<<"mongodb://", "h", ":", "27017", "/">>)

\* the options handed to connect
OptionNames == DOMAIN ConfiguredOptions(config)

\* the config field an option is copied from: the field of its name, but
\* nativeParser for native_parser
FieldOf(f) == IF f = "native_parser" THEN "nativeParser" ELSE f

\* C16 as stated: without a url, every option handed to connect is the value
\* of its config field, false included, and the option of an absent field is
\* unset (autoReconnect counting as given when its legacy spelling
\* auto_reconnect is)
C16_AsStated ==
    (~UrlSet /\ Connected) =>
        \A f \in OptionNames :
            IF config[FieldOf(f)] # Undef
            THEN connectCalls[1].options[f] = config[FieldOf(f)]
            ELSE \/ connectCalls[1].options[f] = Undef
                 \/ f = "autoReconnect" /\ connectCalls[1].options[f] = config.auto_reconnect

-----------------------------------------------------------------------------
(* Claims about the fan-out and the handle *)

\* C17: once the collection is created, one ensureIndex request per entry of
\* indexes has been issued, repeated entries included, each with its entry's
\* index and options, whatever its siblings have answered so far
C17_OneRequestPerEntry ==
    \A i \in 1..Len(ops) :
        LET op == ops[i]
        IN  (IsCreate(op) /\ Succeeded(op, 1))
              => /\ IndexCalls(op) = {j + 1 : j \in 1..Len(op.indexes)}
                 /\ Len(op.calls) = 1 + Len(op.indexes)
                 /\ \A j \in 1..Len(op.indexes) :
                       /\ op.calls[j + 1].a1 = op.indexes[j].index
                       /\ op.calls[j + 1].a2 = op.indexes[j].options
                       /\ j + 1 \in op.pending \/ \E k \in 1..Len(op.replies) : op.replies[k].call = j + 1

C17_Witness ==
    \E i \in 1..Len(ops) :
        /\ IsCreate(ops[i])
        /\ Len(ops[i].indexes) = 2 /\ ops[i].indexes[1] = ops[i].indexes[2]
        /\ ops[i].replies = <<[call |-> 1, err |-> NoErr], [call |-> 2, err |-> IndexError(1)]>>
        /\ ops[i].pending = {3}
        /\ IndexCalls(ops[i]) = {2, 3}

\* a dropCollection that did not throw has made the one driver call
DropOnlyDrops ==
    \A i \in 1..Len(ops) :
        (ops[i].kind = "dropCollection" /\ ops[i].thrown = NoErr)
            => ops[i].calls = <<DriverCall("dropCollection", ops[i].name, "")>>

\* C18: this.db is assigned once, by the successful connect, and no step of
\* createCollection, _ensureIndexes or dropCollection changes it; and
\* dropCollection makes one driver call, the drop
C18_HandleAssignedOnce ==
    [][/\ db # Undef => db' = db
       /\ db' # db => (pc = "connecting" /\ pc' = "ready" /\ ops' = ops)
       /\ DropOnlyDrops']_vars

C18_Witness ==
    /\ db = DbHandle
    /\ \E i \in 1..Len(ops) :
          /\ ops[i].kind = "dropCollection"
          /\ ops[i].replies = <<[call |-> 1, err |-> DropError]>>
          /\ ops[i].cb = <<DropError>>

====
